---- MODULE Spec2Model ----
(***************************************************************************)
(* Repository security scanner (backend/main.py, backend/scanner.py).      *)
(*                                                                         *)
(* The specifications of this module:                                      *)
(*   Spec        the scan registry and the background scan tasks of the    *)
(*               HTTP service (submit, status, result, delete, and every   *)
(*               step of run_scan_background / scan_repository);           *)
(*   SpecTask    the background tasks and the queries, with the except     *)
(*               branch of run_scan_background and without delete          *)
(*               (SpecTaskFair: under fair scheduling of the tasks);       *)
(*   SpecDedup   the per-file line scanner feeding the overlap             *)
(*               deduplicator of run_secret_scan;                          *)
(*   SpecDedupLine  the same on a file of one line, with one more pattern; *)
(*   SpecRedact  scan_file_for_secrets on one line: redaction of the       *)
(*               context, the stored matched value and its serialization;  *)
(*   SpecPair    scan_file_for_secrets on a line that holds two secrets;   *)
(*   SpecScan    one call of scan_repository, statement by statement, with *)
(*               the outcome of every external tool;                       *)
(*   SpecCollect the file-collection walk of run_secret_scan;              *)
(*   SpecPool    the file loop of run_secret_scan, sequential and pooled;  *)
(*   SpecIgnore  the ignore filter on one file of two clones.              *)
(***************************************************************************)
EXTENDS Integers, Sequences, FiniteSets, TLC

VARIABLES
    now,                 \* datetime.utcnow() in whole seconds since the start of the day
    scan_status_cache,   \* main.py: scan_id -> status ("absent" when the key is missing)
    scan_results_cache,  \* main.py: scan_id -> stored result dict
    tasks,               \* the background tasks, in submission order
    disk,                \* clone directory under base_path -> task that filled it (0: no directory)
    all_findings,        \* run_secret_scan: findings collected from the files
    unique_findings,     \* run_secret_scan: output of the deduplicator
    rerun_findings,      \* the deduplicator applied to its own output
    dphase,              \* position of the secret scan: "scan", "dedup", "rerun", "done"
    dconfig,             \* the ScanConfig of the secret scan
    line,                \* scan_file_for_secrets: the line being matched
    finding,             \* scan_file_for_secrets: the SecretFinding built from one match
    serialized,          \* SecretFinding.to_dict() of that finding
    rphase,              \* "line", "found", "serialized"
    rconfig,             \* the ScanConfig of that file scan
    step,                \* scan_repository: the statement the one scan is at
    trace,               \* scan_repository: the steps it has run, in order
    repo_url,            \* scan_repository: the URL it is called with
    cfg,                 \* scan_repository: the ScanConfig passed in
    repo_exists,         \* whether a directory is at repo_path
    clone_size,          \* total size of the cloned files, in MB (0 before the clone)
    failed_tools,        \* the external tools that were missing, failed or gave malformed output
    raised_in,           \* the step an exception not caused by a tool was raised in ("none")
    errors,              \* scan_repository: the errors list
    dep_errors,          \* the "errors" lists nested in the dependency results
    result,              \* the ScanResult returned
    tree_file,           \* run_secret_scan: a file of the cloned tree
    ccfg,                \* run_secret_scan: the ScanConfig of the collection
    files_to_scan,       \* run_secret_scan: the files collected
    cphase,              \* "walk", "collected"
    file_matches,        \* what scan_file_for_secrets finds in each candidate file
    seq_left,            \* sequential loop: the files still to scan
    futures,             \* worker pool: the futures that have not completed
    seq_findings,        \* all_findings of the sequential loop
    par_findings,        \* all_findings of the as_completed loop
    seq_unique,          \* unique_findings after the sequential loop
    par_unique,          \* unique_findings after the as_completed loop
    pphase,              \* "scan", "dedup"
    other_finding,       \* scan_file_for_secrets: the SecretFinding of a second match on the line
    clones,              \* the URLs two repositories with the same tree are cloned from
    ifile,               \* a file of that tree, by its path relative to the root
    ignored              \* per clone: "ignored" or "scanned" once the filter has run ("none" before)

orchVars   == <<now, scan_status_cache, scan_results_cache, tasks, disk>>
dedupVars  == <<all_findings, unique_findings, rerun_findings, dphase, dconfig>>
redactVars == <<line, finding, serialized, rphase, rconfig>>
scanVars   == <<step, trace, repo_url, cfg, repo_exists, clone_size, failed_tools, raised_in,
                errors, dep_errors, result>>
collectVars == <<tree_file, ccfg, files_to_scan, cphase>>
poolVars   == <<file_matches, seq_left, futures, seq_findings, par_findings,
                seq_unique, par_unique, pphase>>
pairVars   == <<other_finding>>
ignoreVars == <<clones, ifile, ignored>>
vars       == <<orchVars, dedupVars, redactVars, scanVars, collectVars, poolVars,
                pairVars, ignoreVars>>

(***************************************************************************)
(* Bounds of the model.                                                    *)
(***************************************************************************)
MaxTasks == 2
MaxTime == 1

Min(a, b) == IF a <= b THEN a ELSE b

(***************************************************************************)
(* URLs.  A URL is the record urlparse() makes of it: scheme, hostname     *)
(* (its dot-separated labels), path (its slash-separated segments, with    *)
(* dotgit telling whether the last one ends in ".git"), and md5, the first *)
(* eight hex digits of the MD5 of the whole URL string.                    *)
(***************************************************************************)
ALLOWED_URL_SCHEMES == {"http", "https", "git", "ssh"}

URLs ==
    { [scheme |-> "https", host |-> <<"github", "com">>, path |-> <<"a", "b">>, dotgit |-> TRUE, md5 |-> "h1"],
      [scheme |-> "ftp", host |-> <<"github", "com">>, path |-> <<"a", "b">>, dotgit |-> TRUE, md5 |-> "h3"],
      [scheme |-> "http", host |-> <<"localhost">>, path |-> <<"x">>, dotgit |-> TRUE, md5 |-> "h5"],
      [scheme |-> "http", host |-> <<"127", "0", "0", "1">>, path |-> <<"x">>, dotgit |-> TRUE, md5 |-> "h6"],
      [scheme |-> "http", host |-> <<"127", "0", "0", "2">>, path |-> <<"x">>, dotgit |-> TRUE, md5 |-> "h7"],
      [scheme |-> "http", host |-> <<"10", "0", "0", "5">>, path |-> <<"x">>, dotgit |-> TRUE, md5 |-> "h8"],
      [scheme |-> "git", host |-> <<"192", "168", "1", "1">>, path |-> <<"x">>, dotgit |-> TRUE, md5 |-> "h10"] }

\* str.startswith(prefix) on the hostname, the prefix given by its labels and
\* ending in a dot (so at least one more label follows)
HostStartsWith(host, labels) ==
    /\ Len(host) > Len(labels)
    /\ \A i \in 1..Len(labels) : host[i] = labels[i]

\* validate_repo_url: TRUE when the URL is accepted
validate_repo_url(url) ==
    IF url.scheme \notin ALLOWED_URL_SCHEMES THEN FALSE
    ELSE IF url.host # <<>>
              /\ (\/ url.host \in {<<"localhost">>, <<"127", "0", "0", "1">>, <<"0", "0", "0", "0">>}
                  \/ HostStartsWith(url.host, <<"10">>)
                  \/ HostStartsWith(url.host, <<"172">>)
                  \/ HostStartsWith(url.host, <<"192", "168">>))
         THEN FALSE
         ELSE TRUE

\* hashlib.md5(url.encode()) gives a digest: md5 is "raises" for a URL string
\* that cannot be encoded (a lone surrogate) and where OpenSSL refuses MD5
Hashable(url) == url.md5 # "raises"

\* sanitize_repo_name: the path with "/" replaced by "_", a trailing ".git"
\* dropped, then "_" and the hash; here the "_"-separated pieces of that name
sanitize_repo_name(url) == url.path \o <<url.md5>>

\* temp_repo_context: repo_path = os.path.join(config.base_path, repo_name)
RepoPath(url) == sanitize_repo_name(url)

\* the URLs the validator lets through: only they reach the registry and the disk
ValidURLs == { u \in URLs : validate_repo_url(u) }

RepoPaths == { RepoPath(u) : u \in ValidURLs }

(***************************************************************************)
(* The service: registry, background tasks, clone directories.             *)
(***************************************************************************)
\* ScanRequest.repo_name: None (here the empty name) or a name the client gives
NoName == <<>>
RequestNames == { NoName }

\* ScanRequest.timeout, which becomes ScanConfig.default_timeout
Timeouts == { 120 }

\* how long Repo.clone_from runs, in seconds
CloneSecs == { 60, 200 }

RepoNames == (RequestNames \ {NoName}) \cup { sanitize_repo_name(u) : u \in ValidURLs }

\* scan_id = f"{repo_name}_{utcnow:%Y%m%d_%H%M%S}": the name, the date and the
\* time of day are its "_"-separated parts
ScanId(repo_name, t) == [repo_name |-> repo_name, date |-> "20260101", time |-> t]

ScanIds == { ScanId(n, t) : n \in RepoNames, t \in 0..MaxTime }

\* a key missing from scan_results_cache
NoResult == [status |-> "absent", error |-> "none"]

\* ScanResult(...).to_dict(), reduced to its status and its errors list
ScanResult(status, error) == [status |-> status, error |-> error]

Tasks == 1..Len(tasks)

PathOf(t) == RepoPath(tasks[t].repo_url)

\* scan_repository has been entered by task t and has not returned
InProgress(t) == tasks[t].pc \in {"entered", "cloning", "secrets", "deps", "summary", "cleanup", "returning"}

\* task t is between the start of its clone and the removal of its clone directory
InCloneOrScan(t) == tasks[t].pc \in {"cloning", "secrets", "deps", "summary", "cleanup"}

\* scan_repository has returned to task t
Finished(t) == tasks[t].pc \in {"returned", "stored", "done"}

InitOrch ==
    /\ now = 0
    /\ scan_status_cache = [id \in ScanIds |-> "absent"]
    /\ scan_results_cache = [id \in ScanIds |-> NoResult]
    /\ tasks = <<>>
    /\ disk = [p \in RepoPaths |-> 0]

\* the clock of datetime.utcnow() moves on (it is read by scan_repo_async alone)
Tick ==
    /\ now < MaxTime
    /\ Len(tasks) < MaxTasks
    /\ now' = now + 1
    /\ UNCHANGED <<scan_status_cache, scan_results_cache, tasks, disk>>
    /\ UNCHANGED <<dedupVars, redactVars, scanVars, collectVars, poolVars, pairVars, ignoreVars>>

\* POST /scan whose repo_url the ScanRequest validator refuses: pydantic raises
\* before scan_repo_async runs, and nothing is written
SubmitRejected(url) ==
    /\ ~validate_repo_url(url)
    /\ UNCHANGED <<now, scan_status_cache, scan_results_cache, tasks, disk>>
    /\ UNCHANGED <<dedupVars, redactVars, scanVars, collectVars, poolVars, pairVars, ignoreVars>>

\* POST /scan: scan_repo_async.  found_running is no field of the program: it
\* notes which scans of the same repository were in progress at submission
scan_repo_async(url, name, timeout) ==
    /\ validate_repo_url(url)
    /\ name = NoName => Hashable(url)
    /\ Len(tasks) < MaxTasks
    /\ LET repo_name == IF name # NoName THEN name ELSE sanitize_repo_name(url)
           scan_id == ScanId(repo_name, now)
       IN /\ scan_status_cache' = [scan_status_cache EXCEPT ![scan_id] = "queued"]
          /\ tasks' = Append(tasks, [scan_id |-> scan_id, repo_url |-> url,
                                     default_timeout |-> timeout, pc |-> "pending",
                                     clone_secs |-> 0, result |-> NoResult,
                                     found_running |-> { t \in Tasks : tasks[t].repo_url = url /\ InProgress(t) }])
    /\ UNCHANGED <<now, scan_results_cache, disk>>
    /\ UNCHANGED <<dedupVars, redactVars, scanVars, collectVars, poolVars, pairVars, ignoreVars>>

\* run_scan_background, first statement: the task starts and writes "scanning";
\* scan_repository then enters temp_repo_context
StartScan(t) ==
    /\ tasks[t].pc = "pending"
    /\ scan_status_cache' = [scan_status_cache EXCEPT ![tasks[t].scan_id] = "scanning"]
    /\ tasks' = [tasks EXCEPT ![t].pc = "entered"]
    /\ UNCHANGED <<now, scan_results_cache, disk>>
    /\ UNCHANGED <<dedupVars, redactVars, scanVars, collectVars, poolVars, pairVars, ignoreVars>>

\* clone_repository up to the call of Repo.clone_from: the URL is valid (it
\* passed the validator), the disk-space check may fail, and a directory
\* already at repo_path is removed
ClonePrepare(t) ==
    /\ tasks[t].pc = "entered"
    /\ Hashable(tasks[t].repo_url)
    /\ \/ /\ tasks' = [tasks EXCEPT ![t].pc = "cleanup",
                                    ![t].result = ScanResult("failed", "Clone failed: Insufficient disk space")]
          /\ UNCHANGED disk
       \/ /\ tasks' = [tasks EXCEPT ![t].pc = "cloning"]
          /\ disk' = [disk EXCEPT ![PathOf(t)] = 0]
    /\ UNCHANGED <<now, scan_status_cache, scan_results_cache>>
    /\ UNCHANGED <<dedupVars, redactVars, scanVars, collectVars, poolVars, pairVars, ignoreVars>>

\* what clone_repository returns once Repo.clone_from has run for secs seconds
\* under the given timeout: the timeout is never handed to clone_from, so the
\* clone is awaited however long it takes; git refuses a destination that
\* exists; the size of the clone is compared with ScanConfig().max_repo_size
clone_repository(exists, timeout, secs, git_ok, oversize) ==
    IF exists \/ ~git_ok
    THEN [ok |-> FALSE, made |-> FALSE, error |-> "Clone failed: Clone failed: git"]
    ELSE IF oversize
    THEN [ok |-> FALSE, made |-> TRUE, error |-> "Clone failed: Repository too large"]
    ELSE [ok |-> TRUE, made |-> TRUE, error |-> "none"]

\* Repo.clone_from and the size check, then the branch of scan_repository on
\* the outcome
CloneRun(t) ==
    /\ tasks[t].pc = "cloning"
    /\ \E secs \in CloneSecs, git_ok \in BOOLEAN, oversize \in BOOLEAN :
         LET out == clone_repository(disk[PathOf(t)] # 0, tasks[t].default_timeout,
                                     secs, git_ok, oversize)
         IN /\ disk' = IF out.made THEN [disk EXCEPT ![PathOf(t)] = t] ELSE disk
            /\ tasks' = [tasks EXCEPT
                          ![t].clone_secs = secs,
                          ![t].pc = IF out.ok THEN "secrets" ELSE "cleanup",
                          ![t].result = IF out.ok THEN NoResult ELSE ScanResult("failed", out.error)]
    /\ UNCHANGED <<now, scan_status_cache, scan_results_cache>>
    /\ UNCHANGED <<dedupVars, redactVars, scanVars, collectVars, poolVars, pairVars, ignoreVars>>

\* one of run_secret_scan, run_dependency_scan, generate_repo_summary: it
\* returns, or raises an exception that only scan_repository catches
ScanStep(t, from, to) ==
    /\ tasks[t].pc = from
    /\ \/ tasks' = [tasks EXCEPT ![t].pc = to,
                                 ![t].result = IF to = "cleanup"
                                               THEN ScanResult("completed", "none")
                                               ELSE NoResult]
       \/ tasks' = [tasks EXCEPT ![t].pc = "cleanup",
                                 ![t].result = ScanResult("error", "Scan error")]
    /\ UNCHANGED <<now, scan_status_cache, scan_results_cache, disk>>
    /\ UNCHANGED <<dedupVars, redactVars, scanVars, collectVars, poolVars, pairVars, ignoreVars>>

SecretScan(t) == ScanStep(t, "secrets", "deps")

DependencyScan(t) == ScanStep(t, "deps", "summary")

Summarize(t) == ScanStep(t, "summary", "cleanup")

\* temp_repo_context, the finally block: the directory at repo_path is removed
Cleanup(t) ==
    /\ tasks[t].pc = "cleanup"
    /\ disk' = [disk EXCEPT ![PathOf(t)] = 0]
    /\ tasks' = [tasks EXCEPT ![t].pc = "returning"]
    /\ UNCHANGED <<now, scan_status_cache, scan_results_cache>>
    /\ UNCHANGED <<dedupVars, redactVars, scanVars, collectVars, poolVars, pairVars, ignoreVars>>

\* scan_repository hands its ScanResult back to run_scan_background
Return(t) ==
    /\ tasks[t].pc = "returning"
    /\ tasks' = [tasks EXCEPT ![t].pc = "returned"]
    /\ UNCHANGED <<now, scan_status_cache, scan_results_cache, disk>>
    /\ UNCHANGED <<dedupVars, redactVars, scanVars, collectVars, poolVars, pairVars, ignoreVars>>

\* run_scan_background: scan_results_cache[scan_id] = result.to_dict()
StoreResult(t) ==
    /\ tasks[t].pc = "returned"
    /\ scan_results_cache' = [scan_results_cache EXCEPT ![tasks[t].scan_id] = tasks[t].result]
    /\ tasks' = [tasks EXCEPT ![t].pc = "stored", ![t].clone_secs = 0, ![t].result = NoResult]
    /\ UNCHANGED <<now, scan_status_cache, disk>>
    /\ UNCHANGED <<dedupVars, redactVars, scanVars, collectVars, poolVars, pairVars, ignoreVars>>

\* run_scan_background: scan_status_cache[scan_id] = "completed", whatever the
\* status of the ScanResult
StoreStatus(t) ==
    /\ tasks[t].pc = "stored"
    /\ scan_status_cache' = [scan_status_cache EXCEPT ![tasks[t].scan_id] = "completed"]
    /\ tasks' = [tasks EXCEPT ![t].pc = "done"]
    /\ UNCHANGED <<now, scan_results_cache, disk>>
    /\ UNCHANGED <<dedupVars, redactVars, scanVars, collectVars, poolVars, pairVars, ignoreVars>>

\* GET /scan/{scan_id}/status and GET /scan/{scan_id}/result: they answer from
\* the caches (404 when the key is missing) and write nothing
Query(id) ==
    /\ id \in ScanIds
    /\ UNCHANGED <<now, scan_status_cache, scan_results_cache, tasks, disk>>
    /\ UNCHANGED <<dedupVars, redactVars, scanVars, collectVars, poolVars, pairVars, ignoreVars>>

\* DELETE /scan/{scan_id} of a scan-id in the caches: both entries go.  The
\* directory it then looks for, base_path joined with scan_id.rsplit('_', 1)[0],
\* is the repository name followed by the date, which is no clone directory,
\* and the shutil it would remove it with is not imported in main.py
delete_scan_result(id) ==
    /\ ~(scan_results_cache[id] = NoResult /\ scan_status_cache[id] = "absent")
    /\ scan_results_cache' = [scan_results_cache EXCEPT ![id] = NoResult]
    /\ scan_status_cache' = [scan_status_cache EXCEPT ![id] = "absent"]
    /\ UNCHANGED <<now, tasks, disk>>
    /\ UNCHANGED <<dedupVars, redactVars, scanVars, collectVars, poolVars, pairVars, ignoreVars>>

\* the scan-ids a client knows of: those handed out by POST /scan
IssuedIds == { tasks[t].scan_id : t \in Tasks }

\* POST /scan without a repo_name for a URL sanitize_repo_name raises on:
\* scan_repo_async answers 500 before it has written anything
SubmitFails(url, name) ==
    /\ validate_repo_url(url)
    /\ name = NoName
    /\ ~Hashable(url)
    /\ UNCHANGED <<now, scan_status_cache, scan_results_cache, tasks, disk>>
    /\ UNCHANGED <<dedupVars, redactVars, scanVars, collectVars, poolVars, pairVars, ignoreVars>>

\* scan_repository calls sanitize_repo_name before its try block: what it
\* raises reaches run_scan_background
ScanRaises(t) ==
    /\ tasks[t].pc = "entered"
    /\ ~Hashable(tasks[t].repo_url)
    /\ tasks' = [tasks EXCEPT ![t].pc = "raised"]
    /\ UNCHANGED <<now, scan_status_cache, scan_results_cache, disk>>
    /\ UNCHANGED <<dedupVars, redactVars, scanVars, collectVars, poolVars, pairVars, ignoreVars>>

\* run_scan_background, except branch: scan_status_cache[scan_id] = "failed"
FailStatus(t) ==
    /\ tasks[t].pc = "raised"
    /\ scan_status_cache' = [scan_status_cache EXCEPT ![tasks[t].scan_id] = "failed"]
    /\ tasks' = [tasks EXCEPT ![t].pc = "failing"]
    /\ UNCHANGED <<now, scan_results_cache, disk>>
    /\ UNCHANGED <<dedupVars, redactVars, scanVars, collectVars, poolVars, pairVars, ignoreVars>>

\* run_scan_background, except branch:
\* scan_results_cache[scan_id] = {"error": str(e), "status": "failed"}
FailResult(t) ==
    /\ tasks[t].pc = "failing"
    /\ scan_results_cache' = [scan_results_cache EXCEPT
                                 ![tasks[t].scan_id] = ScanResult("failed", "exception message")]
    /\ tasks' = [tasks EXCEPT ![t].pc = "done"]
    /\ UNCHANGED <<now, scan_status_cache, disk>>
    /\ UNCHANGED <<dedupVars, redactVars, scanVars, collectVars, poolVars, pairVars, ignoreVars>>

\* Repo.clone_from is called without a timeout: a clone the server never
\* answers is awaited for ever, and the task takes no further step
CloneBlocks(t) ==
    /\ tasks[t].pc = "cloning"
    /\ tasks' = [tasks EXCEPT ![t].pc = "blocked"]
    /\ UNCHANGED <<now, scan_status_cache, scan_results_cache, disk>>
    /\ UNCHANGED <<dedupVars, redactVars, scanVars, collectVars, poolVars, pairVars, ignoreVars>>

\* the requests of the specification of one task and its readers
TaskURLs ==
    { [scheme |-> "https", host |-> <<"github", "com">>, path |-> <<"a", "b">>, dotgit |-> TRUE, md5 |-> "h1"],
      [scheme |-> "https", host |-> <<"github", "com">>, path |-> <<"a", "c">>, dotgit |-> TRUE, md5 |-> "raises"] }

\* ScanRequest.repo_name when the client gives one
GivenNames == { <<"myrepo">> }

TaskScanIds ==
    { ScanId(n, t) : n \in GivenNames \cup { sanitize_repo_name(u) : u \in { v \in TaskURLs : Hashable(v) } },
                     t \in 0..MaxTime }

InitTask ==
    /\ now = 0
    /\ scan_status_cache = [id \in TaskScanIds |-> "absent"]
    /\ scan_results_cache = [id \in TaskScanIds |-> NoResult]
    /\ tasks = <<>>
    /\ disk = [p \in RepoPaths |-> 0]

\* a step of background task t
TaskStep(t) ==
    /\ t \in Tasks
    /\ \/ StartScan(t) \/ ClonePrepare(t) \/ CloneRun(t) \/ CloneBlocks(t)
       \/ SecretScan(t) \/ DependencyScan(t) \/ Summarize(t) \/ Cleanup(t) \/ Return(t)
       \/ StoreResult(t) \/ StoreStatus(t)
       \/ ScanRaises(t) \/ FailStatus(t) \/ FailResult(t)

\* the thread pool runs every background task that can take a step
TaskFairness == \A t \in 1..MaxTasks : WF_vars(TaskStep(t))

(***************************************************************************)
(* Claims about the service.                                               *)
(***************************************************************************)
\* C1: for any two scans of the same repository URL, at most one is between
\* the start of its clone and the end of its scan (removal of its clone
\* directory included).
C1_CloneScanExclusive ==
    \A t1 \in Tasks, t2 \in Tasks :
        (t1 # t2 /\ tasks[t1].repo_url = tasks[t2].repo_url)
            => ~(InCloneOrScan(t1) /\ InCloneOrScan(t2))

\* C2: a submission that found a scan of its repository in progress stays
\* queued (neither scanning nor completed nor failed) until that earlier scan
\* has finished.
C2_QueuedBehindRunningScan ==
    \A t2 \in Tasks : \A t1 \in tasks[t2].found_running :
        (tasks[t1].scan_id # tasks[t2].scan_id /\ ~Finished(t1))
            => /\ tasks[t2].pc = "pending"
               /\ scan_status_cache[tasks[t2].scan_id] \in {"queued", "absent"}

StatusRank(status) ==
    CASE status = "queued" -> 1
      [] status = "scanning" -> 2
      [] status \in {"completed", "failed"} -> 3
      [] OTHER -> 0

\* C3: the registry status of a scan-id only moves forward along
\* queued -> scanning -> {completed | failed}: no step takes a scan-id that has
\* a status to an earlier status.
C3_StatusMonotonic ==
    [][\A id \in ScanIds :
          (scan_status_cache[id] # "absent" /\ scan_status_cache'[id] # "absent")
              => StatusRank(scan_status_cache[id]) <= StatusRank(scan_status_cache'[id])]_vars

\* C4: whenever scan_repository returns, on every exit path, the working
\* directory of that scan's clone does not exist.
C4_DirectoryGoneAtReturn ==
    [][\A t \in Tasks :
          (tasks[t].pc = "returning" /\ tasks'[t].pc = "returned")
              => disk'[PathOf(t)] = 0]_vars

\* an errors entry that identifies a clone timeout
TimeoutErrors == { "Clone failed: Clone timeout" }

\* C9: a scan whose clone ran longer than default_timeout has not waited for
\* the clone: its ScanResult is failed with an error that identifies a timeout.
C9_CloneTimeoutFails ==
    \A t \in Tasks :
        tasks[t].clone_secs > tasks[t].default_timeout
            => /\ tasks[t].result.status = "failed"
               /\ tasks[t].result.error \in TimeoutErrors

\* loopback addressing: localhost, 127.0.0.0/8, ::1
IsLoopbackHost(host) ==
    \/ host \in { <<"localhost">>, <<"::1">> }
    \/ Len(host) = 4 /\ host[1] = "127"

\* private-network addressing: 10.0.0.0/8, 172.16.0.0/12, 192.168.0.0/16
IsPrivateHost(host) ==
    /\ Len(host) = 4
    /\ \/ host[1] = "10"
       \/ host[1] = "172" /\ host[2] \in {"16", "17", "18", "19", "20", "21", "22", "23",
                                          "24", "25", "26", "27", "28", "29", "30", "31"}
       \/ host[1] = "192" /\ host[2] = "168"

\* C10: a submission whose URL has a scheme outside {http, https, git, ssh},
\* or a loopback or private-network host, never starts: no background task is
\* scheduled for it.
C10_UnsafeUrlNeverStarts ==
    \A t \in Tasks :
        /\ tasks[t].repo_url.scheme \in {"http", "https", "git", "ssh"}
        /\ ~IsLoopbackHost(tasks[t].repo_url.host)
        /\ ~IsPrivateHost(tasks[t].repo_url.host)

\* C14: the working directories of concurrent scans are disjoint: no step
\* of one scan creates or removes the directory that another scan, which is
\* between its clone and its cleanup, has cloned into.
C14_WorkingDirsDisjoint ==
    [][\A p \in RepoPaths :
          (disk[p] # 0 /\ InCloneOrScan(disk[p]) /\ disk'[p] # disk[p])
              => tasks'[disk[p]].pc # tasks[disk[p]].pc]_vars

\* C15: the registry entries of a scan-id are written by one background task
\* only: no two tasks that have started own the same scan-id.
C15_SingleWriterPerScanId ==
    \A t1 \in Tasks, t2 \in Tasks :
        (t1 # t2 /\ tasks[t1].pc # "pending" /\ tasks[t2].pc # "pending")
            => tasks[t1].scan_id # tasks[t2].scan_id

\* C16: when a delete of a known scan-id has returned, the scan-id has no
\* status and no result, and the clone directory of its repository is gone.
C16_DeleteRemovesCloneDir ==
    [][\A id \in ScanIds :
          (/\ scan_status_cache[id] # "absent" \/ scan_results_cache[id] # NoResult
           /\ scan_status_cache'[id] = "absent"
           /\ scan_results_cache'[id] = NoResult)
              => disk'[id.repo_name] = 0]_vars

\* C23: the registry status of a scan agrees with the outcome of its scan: a
\* scan-id whose registry status is completed has a stored ScanResult of status
\* completed, and a task that has ended with a stored ScanResult of status
\* failed or error has registry status failed.
C23_StatusAgreesWithResult ==
    /\ \A id \in ScanIds :
          scan_status_cache[id] = "completed" => scan_results_cache[id].status = "completed"
    /\ \A t \in Tasks :
          (tasks[t].pc = "done" /\ scan_results_cache[tasks[t].scan_id].status \in {"failed", "error"})
              => scan_status_cache[tasks[t].scan_id] = "failed"

\* C25: once a delete of a scan-id has succeeded the scan-id stays absent from
\* the registry: no step of its background task writes its status or result
\* entry again (only a new submission that is given the same scan-id may).
C25_DeletedStaysAbsent ==
    [][\A id \in IssuedIds :
          (/\ scan_status_cache[id] = "absent"
           /\ scan_results_cache[id] = NoResult
           /\ Len(tasks') = Len(tasks))
              => (scan_status_cache'[id] = "absent" /\ scan_results_cache'[id] = NoResult)]_vars

\* C24: whenever a status query answers completed or failed for a scan-id, a
\* result query for it finds a stored result (no task removes an entry, so this
\* holds of every later query as well).
C24_ResultFollowsStatus ==
    \A id \in TaskScanIds :
        scan_status_cache[id] \in {"completed", "failed"} => scan_results_cache[id] # NoResult

\* C26: every accepted scan eventually has registry status completed or
\* failed, when every background task that can take a step does: no scan-id
\* stays queued or scanning for ever.
C26_EveryScanEnds ==
    \A id \in TaskScanIds :
        (scan_status_cache[id] \in {"queued", "scanning"})
            ~> (scan_status_cache[id] \in {"completed", "failed"})

(***************************************************************************)
(* The secret scan of one file: scan_file_for_secrets collects a finding   *)
(* per line, pattern and match, and run_secret_scan deduplicates them.     *)
(***************************************************************************)
MaxFindings == 3
MaxCol == 3

\* lines of the scanned file
Lines == { 1, 2 }

\* secret_type labels, each with the place of its pattern in SECRET_PATTERNS
SecretTypes == { "API Key", "Google API Key", "Generic Key-Value" }

PatternIndex(secret_type) ==
    CASE secret_type = "API Key" -> 6
      [] secret_type = "Google API Key" -> 15
      [] secret_type = "Base64 Encoded Secret" -> 17
      [] secret_type = "Generic Key-Value" -> 18

\* the label names one of the providers of specificity_score
NamesProvider(secret_type) == secret_type \in { "Google API Key" }

\* the label contains 'generic', 'key-value' or 'possible'
IsGenericType(secret_type) == secret_type \in { "Generic Key-Value" }

\* the SecretFinding scan_file_for_secrets builds for a match of the pattern
\* of secret_type whose secret span is [start, end) on line ln: matched_value
\* is the text of that span (here its length), context is the (redacted) line,
\* which stands here for the line it was taken from
SecretFinding(config, ln, secret_type, start, end) ==
    [file_path |-> "app.env",
     line_number |-> IF config.include_line_numbers THEN ln ELSE 0,
     secret_type |-> secret_type,
     context |-> ln,
     start |-> start,
     end |-> end,
     matched_value |-> end - start]

\* specificity_score of run_secret_scan
specificity_score(f) ==
    (IF NamesProvider(f.secret_type) THEN 100 ELSE 0)
    + f.matched_value
    - (IF IsGenericType(f.secret_type) THEN 10 ELSE 0)

\* the grouping key without the file path
GroupKeyByLine(f) == <<"", f.line_number>>

GroupKey(f) == <<f.file_path, f.line_number>>

\* the keys of grouped, in the order setdefault first sees them
RECURSIVE GroupKeys(_)
GroupKeys(fs) ==
    IF fs = <<>> THEN <<>>
    ELSE <<GroupKey(Head(fs))>>
         \o GroupKeys(SelectSeq(Tail(fs), LAMBDA f : GroupKey(f) # GroupKey(Head(fs))))

\* (x.start, x.end) < (y.start, y.end)
SpanBefore(x, y) == x.start < y.start \/ (x.start = y.start /\ x.end < y.end)

\* the sort left out: the items stay in the order they were collected
SortItemsOmitted(items) == items

\* items.sort(key=lambda x: (x.start, x.end)): a stable sort
RECURSIVE SortItems(_)
SortItems(items) ==
    IF items = <<>> THEN <<>>
    ELSE LET rest == SortItems(Tail(items))
             x == Head(items)
             \* x goes before the first element of rest that is not before x
             RECURSIVE Insert(_)
             Insert(s) ==
                 IF s = <<>> THEN <<x>>
                 ELSE IF SpanBefore(Head(s), x) THEN <<Head(s)>> \o Insert(Tail(s))
                 ELSE <<x>> \o s
         IN Insert(rest)

\* the overlap test narrowed to an item that lies inside the kept finding
OverlapsInside(item, existing) == existing.start <= item.start /\ item.end <= existing.end

\* not (item.end <= existing.start or item.start >= existing.end)
Overlaps(item, existing) == ~(item.end <= existing.start \/ item.start >= existing.end)

\* the loop over kept with >= for >: on equal scores the later finding wins
KeepItemLaterWins(kept, item) ==
    LET hits == { idx \in 1..Len(kept) : Overlaps(item, kept[idx]) }
    IN IF hits = {} THEN Append(kept, item)
       ELSE LET idx == CHOOSE i \in hits : \A j \in hits : i <= j
            IN IF specificity_score(item) >= specificity_score(kept[idx])
               THEN [kept EXCEPT ![idx] = item]
               ELSE kept

\* the loop over kept for one item: the first kept finding it overlaps is
\* replaced when the item scores higher; an item that overlaps none is appended
KeepItem(kept, item) ==
    LET hits == { idx \in 1..Len(kept) : Overlaps(item, kept[idx]) }
    IN IF hits = {} THEN Append(kept, item)
       ELSE LET idx == CHOOSE i \in hits : \A j \in hits : i <= j
            IN IF specificity_score(item) > specificity_score(kept[idx])
               THEN [kept EXCEPT ![idx] = item]
               ELSE kept

RECURSIVE SweepFrom(_, _)
SweepFrom(kept, items) ==
    IF items = <<>> THEN kept
    ELSE SweepFrom(KeepItem(kept, Head(items)), Tail(items))

\* the kept list of one group
KeptOf(items) == SweepFrom(<<>>, SortItems(items))

RECURSIVE ConcatKept(_, _)
ConcatKept(keys, fs) ==
    IF keys = <<>> THEN <<>>
    ELSE KeptOf(SelectSeq(fs, LAMBDA f : GroupKey(f) = Head(keys)))
         \o ConcatKept(Tail(keys), fs)

\* run_secret_scan, from "grouped = {}" to unique_findings
Deduplicate(fs) == ConcatKept(GroupKeys(fs), fs)

InitDedup ==
    /\ all_findings = <<>>
    /\ unique_findings = <<>>
    /\ rerun_findings = <<>>
    /\ dphase = "scan"
    /\ dconfig \in [include_line_numbers : BOOLEAN]

\* (line, place of the pattern, start): the order in which the loops of
\* scan_file_for_secrets reach the matches
ScannedBefore(f, ln, secret_type, start) ==
    \/ f.context < ln
    \/ f.context = ln /\ PatternIndex(f.secret_type) < PatternIndex(secret_type)
    \/ f.context = ln /\ f.secret_type = secret_type /\ f.end <= start

\* scan_file_for_secrets: the next match, in scan order (the matches finditer
\* gives for one pattern on one line do not overlap), becomes a finding
ScanMatch(ln, secret_type, start, end) ==
    /\ dphase = "scan"
    /\ Len(all_findings) < MaxFindings
    /\ start < end
    /\ all_findings # <<>> => ScannedBefore(all_findings[Len(all_findings)], ln, secret_type, start)
    /\ all_findings' = Append(all_findings, SecretFinding(dconfig, ln, secret_type, start, end))
    /\ UNCHANGED <<unique_findings, rerun_findings, dphase, dconfig>>
    /\ UNCHANGED <<orchVars, redactVars, scanVars, collectVars, poolVars, pairVars, ignoreVars>>

\* run_secret_scan deduplicates what was collected
RunDeduplicate ==
    /\ dphase = "scan"
    /\ unique_findings' = Deduplicate(all_findings)
    /\ dphase' = "dedup"
    /\ UNCHANGED <<all_findings, rerun_findings, dconfig>>
    /\ UNCHANGED <<orchVars, redactVars, scanVars, collectVars, poolVars, pairVars, ignoreVars>>

\* the deduplicator runs again, on its own output
RerunDeduplicate ==
    /\ dphase = "dedup"
    /\ rerun_findings' = Deduplicate(unique_findings)
    /\ dphase' = "done"
    /\ UNCHANGED <<all_findings, unique_findings, dconfig>>
    /\ UNCHANGED <<orchVars, redactVars, scanVars, collectVars, poolVars, pairVars, ignoreVars>>

Range(s) == { s[i] : i \in 1..Len(s) }

\* C5: the deduplicator is idempotent: applied to its own output it yields
\* exactly the same findings.
C5_DedupIdempotent ==
    dphase = "done"
        => /\ Range(rerun_findings) = Range(unique_findings)
           /\ Len(rerun_findings) = Len(unique_findings)

\* a run in which the deduplicator dropped a finding, kept two, and ran again
C5_Witness ==
    /\ dphase = "done"
    /\ Len(unique_findings) < Len(all_findings)
    /\ Len(unique_findings) >= 2

\* C6: of two overlapping findings of the input on the same file and line,
\* one in the output and one not, the retained one scores at least as high as
\* the discarded one.
C6_SpecificityDominance ==
    dphase = "dedup"
        => \A kept \in Range(unique_findings) :
             \A dropped \in Range(all_findings) \ Range(unique_findings) :
                (/\ GroupKey(kept) = GroupKey(dropped)
                 /\ kept.context = dropped.context
                 /\ Overlaps(dropped, kept))
                    => specificity_score(kept) >= specificity_score(dropped)

\* the findings of group k in the order the sweep takes them
SweepOrder(fs, k) == SortItems(SelectSeq(fs, LAMBDA f : GroupKey(f) = k))

\* the kept list when the sweep has taken the first n findings of group k
KeptAfter(fs, k, n) == SweepFrom(<<>>, SubSeq(SweepOrder(fs, k), 1, n))

\* the (group, place in its sweep) at which the finding overlaps a kept
\* finding, and the first it overlaps has the same specificity score
TiePoints(fs) ==
    { p \in Range(GroupKeys(fs)) \X (1..Len(fs)) :
        /\ p[2] <= Len(SweepOrder(fs, p[1]))
        /\ LET item == SweepOrder(fs, p[1])[p[2]]
               kept == KeptAfter(fs, p[1], p[2] - 1)
               hits == { idx \in 1..Len(kept) : Overlaps(item, kept[idx]) }
           IN /\ hits # {}
              /\ specificity_score(item)
                   = specificity_score(kept[CHOOSE i \in hits : \A j \in hits : i <= j]) }

FromLine(fs, ln) == SelectSeq(fs, LAMBDA f : f.context = ln)

\* C21: findings are resolved against findings of their own line only: what
\* the deduplicator keeps of a line is what it keeps when given the findings of
\* that line alone, so no finding is discarded because of a finding on another
\* line, whatever include_line_numbers is.
C21_LinesResolvedApart ==
    dphase = "dedup"
        => \A ln \in Lines :
             Range(FromLine(unique_findings, ln)) = Range(Deduplicate(FromLine(all_findings, ln)))

\* the spans [a.start, a.end) and [b.start, b.end) share a character
SpansMeet(a, b) == a.start < b.end /\ b.start < a.end

\* C22: no secret location is lost: every input finding that is absent from
\* the output overlaps, on the same file and line, a finding of the output.
C22_NoLostLocation ==
    dphase = "dedup"
        => \A dropped \in Range(all_findings) \ Range(unique_findings) :
             \E kept \in Range(unique_findings) :
                /\ GroupKey(kept) = GroupKey(dropped)
                /\ kept.context = dropped.context
                /\ SpansMeet(dropped, kept)

\* C28: the output of the deduplicator is a subset of its input, and the
\* output findings of one (file path, line number) group have pairwise
\* non-overlapping spans and come in non-decreasing order of start.
C28_OutputDisjointAndOrdered ==
    dphase = "dedup"
        => /\ Range(unique_findings) \subseteq Range(all_findings)
           /\ \A i \in 1..Len(unique_findings), j \in 1..Len(unique_findings) :
                 (i < j /\ GroupKey(unique_findings[i]) = GroupKey(unique_findings[j]))
                     => /\ ~SpansMeet(unique_findings[i], unique_findings[j])
                        /\ unique_findings[i].start <= unique_findings[j].start

\* the deduplicator dropped a finding and kept two of one group
C28_Witness ==
    /\ dphase = "dedup"
    /\ Len(unique_findings) < Len(all_findings)
    /\ \E i \in 1..Len(unique_findings), j \in 1..Len(unique_findings) :
          i < j /\ GroupKey(unique_findings[i]) = GroupKey(unique_findings[j])

(***************************************************************************)
(* Redaction.  A character of a line is a number: p for the character at   *)
(* place p of the line (1000 + p when it is whitespace), Star for the      *)
(* masking character and Dot for a full stop added by to_dict.             *)
(***************************************************************************)
MaxLineLen == 21

Star == 0
Dot == 1000
MatchedValueCap == 200

IsSpace(c) == c > 1000

\* the place in the line a character came from (0 for Star, Dot)
PlaceOf(c) == IF c > 1000 THEN c - 1000 ELSE IF c = 1000 THEN 0 ELSE c

\* a line of n characters that begins with lead and ends with trail
\* whitespace characters
MakeLine(n, lead, trail) ==
    [p \in 1..n |-> IF p <= lead \/ p > n - trail THEN 1000 + p ELSE p]

\* text[a:b] of Python, for 0 <= a and b <= len(text)
Slice(text, a, b) == SubSeq(text, a + 1, b)

Stars(n) == [i \in 1..n |-> Star]

\* the mask without the cap of four visible characters
redact_secret_uncapped(text, start, end) ==
    LET secret_len == end - start
        visible_chars == secret_len \div 4
    IN IF secret_len <= visible_chars * 2
       THEN Stars(secret_len)
       ELSE Slice(text, start, start + visible_chars)
            \o Stars(secret_len - visible_chars * 2)
            \o Slice(text, end - visible_chars, end)

\* redact_secret
redact_secret(text, start, end) ==
    LET secret_len == end - start
        visible_chars == Min(4, secret_len \div 4)
    IN IF secret_len <= visible_chars * 2
       THEN Stars(secret_len)
       ELSE Slice(text, start, start + visible_chars)
            \o Stars(secret_len - visible_chars * 2)
            \o Slice(text, end - visible_chars, end)

RECURSIVE LStrip(_)
LStrip(text) ==
    IF text # <<>> /\ IsSpace(Head(text)) THEN LStrip(Tail(text)) ELSE text

RECURSIVE RStrip(_)
RStrip(text) ==
    IF text # <<>> /\ IsSpace(text[Len(text)])
    THEN RStrip(SubSeq(text, 1, Len(text) - 1))
    ELSE text

\* str.strip()
Strip(text) == RStrip(LStrip(text))

\* scan_file_for_secrets, for one match whose secret span is [start, end):
\* the context and the SecretFinding
FindingOfMatch(config, text, start, end) ==
    LET matched_value == Slice(text, start, end)
        context == IF config.redact_secrets
                   THEN Slice(text, 0, start) \o redact_secret(text, start, end)
                        \o Slice(text, end, Len(text))
                   ELSE text
    IN [context |-> Strip(context),
        start |-> start,
        end |-> end,
        matched_value |-> matched_value]

\* SecretFinding.to_dict: a matched_value of more than 200 characters is cut
\* to 200 and "..." is added
to_dict(f) ==
    [f EXCEPT !.matched_value =
        IF Len(f.matched_value) > MatchedValueCap
        THEN SubSeq(f.matched_value, 1, MatchedValueCap) \o <<Dot, Dot, Dot>>
        ELSE f.matched_value]

NoFinding == [context |-> <<>>, start |-> 0, end |-> 0, matched_value |-> <<>>]

InitRedact ==
    /\ line \in { MakeLine(n, lead, trail) : n \in 1..MaxLineLen, lead \in 0..1, trail \in 0..1 }
    /\ rconfig \in [redact_secrets : BOOLEAN]
    /\ finding = NoFinding
    /\ serialized = NoFinding
    /\ rphase = "line"

\* a pattern matches the line with secret span [start, end) and
\* scan_file_for_secrets builds the finding
MatchLine(start, end) ==
    /\ rphase = "line"
    /\ 0 <= start /\ start < end /\ end <= Len(line)
    /\ finding' = FindingOfMatch(rconfig, line, start, end)
    /\ rphase' = "found"
    /\ UNCHANGED <<line, serialized, rconfig>>
    /\ UNCHANGED <<orchVars, dedupVars, scanVars, collectVars, poolVars, pairVars, ignoreVars>>

\* ScanResult.to_dict serializes the finding
Serialize ==
    /\ rphase = "found"
    /\ serialized' = to_dict(finding)
    /\ rphase' = "serialized"
    /\ UNCHANGED <<line, finding, rconfig>>
    /\ UNCHANGED <<orchVars, dedupVars, scanVars, collectVars, poolVars, pairVars, ignoreVars>>

\* min(4, length // 4) for the secret span of f
VisibleEdge(f) == Min(4, (f.end - f.start) \div 4)

\* the characters of text that come from the secret span of f without being
\* among the VisibleEdge(f) first or last characters of the span
ShownInside(text, f) ==
    { i \in 1..Len(text) :
        /\ PlaceOf(text[i]) > f.start + VisibleEdge(f)
        /\ PlaceOf(text[i]) <= f.end - VisibleEdge(f) }

NumStars(text) == Cardinality({ i \in 1..Len(text) : text[i] = Star })

\* C7: with redact_secrets, the context of a finding shows at most
\* min(4, length // 4) <= 4 characters of the secret span at either edge, and
\* every other character of the span is masked.
C7_ContextRedacted ==
    (rphase = "found" /\ rconfig.redact_secrets)
        => /\ ShownInside(finding.context, finding) = {}
           /\ NumStars(finding.context) = (finding.end - finding.start) - 2 * VisibleEdge(finding)

\* a secret of twenty characters or more inside a longer line has been redacted
C7_Witness ==
    /\ rphase = "found"
    /\ rconfig.redact_secrets
    /\ finding.end - finding.start >= 20
    /\ Len(finding.context) > finding.end - finding.start

\* C8: with redact_secrets, the serialized matched value is masked like the
\* context: it shows no character of the secret span beyond the visible edges.
C8_MatchedValueRedacted ==
    (rphase = "serialized" /\ rconfig.redact_secrets)
        => ShownInside(serialized.matched_value, serialized) = {}

\* the lines on which two secrets are matched
PairLines == { MakeLine(n, lead, 0) : n \in {6, 12}, lead \in 0..1 }

InitPair ==
    /\ line \in PairLines
    /\ rconfig \in [redact_secrets : BOOLEAN]
    /\ finding = NoFinding
    /\ other_finding = NoFinding
    /\ serialized = NoFinding
    /\ rphase = "line"

\* a later match on the same line, of the same or of another pattern, whose
\* secret span [start, end) lies after the span of the first:
\* scan_file_for_secrets builds its finding from the line as it was read
MatchLineAgain(start, end) ==
    /\ rphase = "found"
    /\ finding.end <= start /\ start < end /\ end <= Len(line)
    /\ other_finding' = FindingOfMatch(rconfig, line, start, end)
    /\ rphase' = "found both"
    /\ UNCHANGED <<line, finding, serialized, rconfig>>
    /\ UNCHANGED <<orchVars, dedupVars, scanVars, collectVars, poolVars, ignoreVars>>

\* C29: with redact_secrets, the context of a finding shows none of the masked
\* characters of a secret reported on the same line: the context of the first
\* finding does not show the second secret in clear, nor the second's the first.
C29_ContextsHideEverySecret ==
    (rphase = "found both" /\ rconfig.redact_secrets)
        => /\ ShownInside(finding.context, other_finding) = {}
           /\ ShownInside(other_finding.context, finding) = {}

(***************************************************************************)
(* One call of scan_repository.  Sizes are in MB.  An entry of an errors   *)
(* list is the pair of the tool (or step) it is about and its text.  All   *)
(* tool toggles of the ScanConfig have their default, enabled.             *)
(***************************************************************************)
\* ScanConfig.max_repo_size, the default: 500 MB
DEFAULT_MAX_REPO_SIZE == 500

\* the max_repo_size a caller may put in the ScanConfig it passes
MaxRepoSizes == { 100, DEFAULT_MAX_REPO_SIZE, 1000 }

\* the total size of the files of a clone
CloneSizes == { 50, 200, 600 }

ToolNames == { "trufflehog", "pip-audit", "safety", "npm", "snyk", "semgrep", "bandit" }

\* how the run of an external tool ends: it works; its binary is not found;
\* it exits non-zero (with text on stderr and nothing on stdout); it runs
\* into the timeout; it prints something that is no JSON
Outcomes == { "ok", "missing", "nonzero", "timeout", "badjson" }

\* a call that returns: what it appended to its errors list
Returned(errs) == [raised |-> FALSE, errors |-> errs]

\* a call left by an exception
Raised == [raised |-> TRUE, errors |-> {}]

\* run_trufflehog: every outcome is caught inside; a timeout or an exception
\* becomes an entry of the findings it returns, never an error
run_trufflehog(outcome) ==
    [raised |-> FALSE,
     findings |-> CASE outcome = "timeout" -> { "TruffleHog scan timed out" }
                    [] outcome = "badjson" -> { "raw output line" }
                    [] OTHER -> {}]

\* run_secret_scan letting the timeout of TruffleHog through
run_secret_scan_uncaught(outcome) ==
    IF outcome = "timeout" THEN Raised ELSE Returned({})

\* run_secret_scan, its errors: the call of run_trufflehog is guarded by a
\* try of its own, and scan_file_for_secrets catches whatever a file raises
run_secret_scan(outcome) ==
    LET th == run_trufflehog(outcome)
    IN Returned(IF th.raised THEN { <<"trufflehog", "TruffleHog failed">> } ELSE {})

\* scan_python_dependencies: pip-audit and safety run when a requirements
\* file exists
scan_python_dependencies(applicable, pip_audit, safety) ==
    IF ~applicable THEN Returned({})
    ELSE Returned(
        (CASE pip_audit = "missing" -> { <<"pip-audit", "pip-audit not installed">> }
           [] pip_audit = "nonzero" -> { <<"pip-audit", "pip-audit error">> }
           [] pip_audit = "timeout" -> { <<"pip-audit", "pip-audit failed">> }
           [] OTHER -> {})
        \cup
        (CASE safety = "missing" -> { <<"safety", "safety not installed">> }
           [] safety = "nonzero" -> { <<"safety", "safety error">> }
           [] safety = "timeout" -> { <<"safety", "safety check failed">> }
           [] safety = "badjson" -> { <<"safety", "safety output not JSON">> }
           [] OTHER -> {}))

\* scan_node_dependencies: npm audit and snyk run when package.json exists;
\* an audit that gave no JSON is tried again on a generated lockfile, which
\* may fail too; a missing snyk is run through npx when npm is there
scan_node_dependencies(applicable, npm, snyk, fallback_fails) ==
    IF ~applicable THEN Returned({})
    ELSE Returned(
        (CASE npm = "missing" -> { <<"npm", "npm not installed">> }
           [] npm = "nonzero" -> { <<"npm", "npm audit error">> }
                                 \cup (IF fallback_fails THEN { <<"npm", "npm lockfile generation failed">> } ELSE {})
           [] npm = "timeout" -> { <<"npm", "npm audit failed">> }
           [] npm = "badjson" -> IF fallback_fails THEN { <<"npm", "npm lockfile generation failed">> } ELSE {}
           [] OTHER -> {})
        \cup
        (CASE snyk = "missing" /\ npm = "missing" -> { <<"snyk", "snyk not installed">> }
           [] snyk = "timeout" -> { <<"snyk", "snyk test failed">> }
           [] OTHER -> {}))

\* scan_code_quality: semgrep runs when the tree has source files (through
\* python -m semgrep when its binary is missing), bandit when it has .py files
scan_code_quality(source_files, python_files, semgrep, bandit) ==
    Returned(
        (IF ~source_files THEN {}
         ELSE CASE semgrep = "timeout" -> { <<"semgrep", "semgrep failed">> }
                [] semgrep = "badjson" -> { <<"semgrep", "semgrep output not JSON">> }
                [] OTHER -> {})
        \cup
        (IF ~python_files THEN {}
         ELSE CASE bandit = "missing" -> { <<"bandit", "bandit not installed">> }
                [] bandit = "timeout" -> { <<"bandit", "bandit failed">> }
                [] OTHER -> {}))

\* run_dependency_scan: each of the three scans is guarded by a try; one that
\* raises leaves {"status": "error", "error": ...} as its result
SubscanResult(part, r) ==
    IF r.raised THEN { <<part, "status error">> } ELSE r.errors

\* the tools among tools_run whose run did not end well
FailedAmong(tools_run, outcome) == { t \in tools_run : outcome[t] # "ok" }

\* scan_repository skipping the dependency scan
StepAfterSkipping(s) ==
    CASE s = "enter" -> "clone"
      [] s = "clone" -> "secrets"
      [] s = "secrets" -> "summary"
      [] s = "deps_python" -> "deps_node"
      [] s = "deps_node" -> "deps_quality"
      [] s = "deps_quality" -> "summary"
      [] OTHER -> "finally"

\* scan_repository, the with block: the statement that follows s when s
\* neither fails nor raises
StepAfter(s) ==
    CASE s = "enter" -> "clone"
      [] s = "clone" -> "secrets"
      [] s = "secrets" -> "deps_python"
      [] s = "deps_python" -> "deps_node"
      [] s = "deps_node" -> "deps_quality"
      [] s = "deps_quality" -> "summary"
      [] OTHER -> "finally"

\* no ScanResult yet
NoScanResult == [status |-> "none", errors |-> {}]

FailedResult(error_msg) == [status |-> "failed", errors |-> { <<"clone", error_msg>> }]

\* the except branch of scan_repository
ErrorResult == [status |-> "error", errors |-> { <<"scan", "Scan error: exception message">> }]

CompletedResult(errs) == [status |-> "completed", errors |-> errs]

InitScan ==
    /\ step = "enter"
    /\ trace = <<>>
    /\ repo_url \in URLs
    /\ cfg \in [max_repo_size : MaxRepoSizes]
    /\ repo_exists \in BOOLEAN
    /\ clone_size = 0
    /\ failed_tools = {}
    /\ raised_in = "none"
    /\ errors = {}
    /\ dep_errors = {}
    /\ result = NoScanResult

\* temp_repo_context up to its yield: os.makedirs of the base directory,
\* which may raise
EnterContext ==
    /\ step = "enter"
    /\ \/ /\ step' = StepAfter("enter")
          /\ UNCHANGED <<raised_in, result>>
       \/ /\ raised_in' = "setup"
          /\ result' = ErrorResult
          /\ step' = "finally"
    /\ UNCHANGED <<trace, repo_url, cfg, repo_exists, clone_size, failed_tools, errors, dep_errors>>
    /\ UNCHANGED <<orchVars, dedupVars, redactVars, collectVars, poolVars, pairVars, ignoreVars>>

\* clone_repository as scan_repository calls it, and the branch on what it
\* returns: the URL is validated, the free disk space checked, a directory
\* at repo_path removed, the repository cloned (git may refuse or fail) and
\* its size compared with the max_repo_size of a fresh ScanConfig(); the last
\* branch is an exception git did not cause (os.path.getsize raising on a
\* dangling link of the tree), which the except of clone_repository
\* turns into a failure like any other
CloneStep ==
    /\ step = "clone"
    /\ \/ /\ ~validate_repo_url(repo_url)
          /\ trace' = Append(trace, "validate")
          /\ result' = FailedResult("Clone failed: Invalid URL")
          /\ step' = "finally"
          /\ UNCHANGED <<repo_exists, clone_size, raised_in>>
       \/ /\ validate_repo_url(repo_url)
          /\ trace' = Append(trace, "validate")
          /\ result' = FailedResult("Clone failed: Insufficient disk space")
          /\ step' = "finally"
          /\ UNCHANGED <<repo_exists, clone_size, raised_in>>
       \/ /\ validate_repo_url(repo_url)
          /\ \E timeout \in Timeouts, secs \in CloneSecs, git_ok \in BOOLEAN, size \in CloneSizes :
               LET out == clone_repository(FALSE, timeout, secs, git_ok, size > DEFAULT_MAX_REPO_SIZE)
               IN /\ trace' = trace \o <<"validate", "clone">>
                  /\ repo_exists' = out.made
                  /\ clone_size' = IF out.made THEN size ELSE 0
                  /\ raised_in' = raised_in
                  /\ result' = IF out.ok THEN result ELSE FailedResult(out.error)
                  /\ step' = IF out.ok THEN StepAfter("clone") ELSE "finally"
       \/ /\ validate_repo_url(repo_url)
          /\ \E size \in CloneSizes :
               /\ trace' = trace \o <<"validate", "clone">>
               /\ repo_exists' = TRUE
               /\ clone_size' = size
               /\ raised_in' = "clone"
               /\ result' = FailedResult("Clone failed: Clone failed: exception message")
               /\ step' = "finally"
    /\ UNCHANGED <<repo_url, cfg, failed_tools, errors, dep_errors>>
    /\ UNCHANGED <<orchVars, dedupVars, redactVars, collectVars, poolVars, pairVars, ignoreVars>>

\* run_secret_scan: TruffleHog, then the files; or an exception leaves it
SecretStep ==
    /\ step = "secrets"
    /\ trace' = Append(trace, "secrets")
    /\ \/ \E outcome \in Outcomes :
            LET r == run_secret_scan(outcome)
            IN /\ failed_tools' = failed_tools \cup FailedAmong({"trufflehog"}, [t \in ToolNames |-> outcome])
               /\ errors' = errors \cup r.errors
               /\ result' = IF r.raised THEN ErrorResult ELSE result
               /\ step' = IF r.raised THEN "finally" ELSE StepAfter("secrets")
               /\ UNCHANGED raised_in
       \/ /\ raised_in' = "secrets"
          /\ result' = ErrorResult
          /\ step' = "finally"
          /\ UNCHANGED <<failed_tools, errors>>
    /\ UNCHANGED <<repo_url, cfg, repo_exists, clone_size, dep_errors>>
    /\ UNCHANGED <<orchVars, dedupVars, redactVars, collectVars, poolVars, pairVars, ignoreVars>>

\* run_dependency_scan, first part: the tool versions and
\* scan_python_dependencies; or an exception leaves run_dependency_scan
PythonStep ==
    /\ step = "deps_python"
    /\ trace' = Append(trace, "deps")
    /\ \/ \E applicable \in BOOLEAN, pip_audit \in Outcomes, safety \in Outcomes :
            LET r == scan_python_dependencies(applicable, pip_audit, safety)
                ran == IF applicable THEN {"pip-audit", "safety"} ELSE {}
            IN /\ failed_tools' = failed_tools
                     \cup FailedAmong(ran, [t \in ToolNames |-> IF t = "safety" THEN safety ELSE pip_audit])
               /\ dep_errors' = dep_errors \cup SubscanResult("python", r)
               /\ step' = StepAfter("deps_python")
               /\ UNCHANGED <<raised_in, result>>
       \/ /\ raised_in' = "deps"
          /\ result' = ErrorResult
          /\ step' = "finally"
          /\ UNCHANGED <<failed_tools, dep_errors>>
    /\ UNCHANGED <<repo_url, cfg, repo_exists, clone_size, errors>>
    /\ UNCHANGED <<orchVars, dedupVars, redactVars, collectVars, poolVars, pairVars, ignoreVars>>

\* run_dependency_scan, second part: scan_node_dependencies
NodeStep ==
    /\ step = "deps_node"
    /\ \E applicable \in BOOLEAN, npm \in Outcomes, snyk \in Outcomes, fallback_fails \in BOOLEAN :
         LET r == scan_node_dependencies(applicable, npm, snyk, fallback_fails)
             ran == IF applicable THEN {"npm", "snyk"} ELSE {}
         IN /\ failed_tools' = failed_tools
                  \cup FailedAmong(ran, [t \in ToolNames |-> IF t = "snyk" THEN snyk ELSE npm])
            /\ dep_errors' = dep_errors \cup SubscanResult("node", r)
    /\ step' = StepAfter("deps_node")
    /\ UNCHANGED <<trace, repo_url, cfg, repo_exists, clone_size, raised_in, errors, result>>
    /\ UNCHANGED <<orchVars, dedupVars, redactVars, collectVars, poolVars, pairVars, ignoreVars>>

\* run_dependency_scan, third part: scan_code_quality
QualityStep ==
    /\ step = "deps_quality"
    /\ \E source_files \in BOOLEAN, python_files \in BOOLEAN, semgrep \in Outcomes, bandit \in Outcomes :
         /\ python_files => source_files
         /\ LET r == scan_code_quality(source_files, python_files, semgrep, bandit)
                ran == (IF source_files THEN {"semgrep"} ELSE {})
                       \cup (IF python_files THEN {"bandit"} ELSE {})
            IN /\ failed_tools' = failed_tools
                     \cup FailedAmong(ran, [t \in ToolNames |-> IF t = "bandit" THEN bandit ELSE semgrep])
               /\ dep_errors' = dep_errors \cup SubscanResult("code_quality", r)
    /\ step' = StepAfter("deps_quality")
    /\ UNCHANGED <<trace, repo_url, cfg, repo_exists, clone_size, raised_in, errors, result>>
    /\ UNCHANGED <<orchVars, dedupVars, redactVars, collectVars, poolVars, pairVars, ignoreVars>>

\* generate_repo_summary, then "Collect all errors" and the ScanResult of a
\* completed scan; or an exception on the way
SummaryStep ==
    /\ step = "summary"
    /\ trace' = Append(trace, "summary")
    /\ \/ /\ result' = CompletedResult(errors)
          /\ UNCHANGED raised_in
       \/ /\ raised_in' = "summary"
          /\ result' = ErrorResult
    /\ step' = "finally"
    /\ UNCHANGED <<repo_url, cfg, repo_exists, clone_size, failed_tools, errors, dep_errors>>
    /\ UNCHANGED <<orchVars, dedupVars, redactVars, collectVars, poolVars, pairVars, ignoreVars>>

\* the finally block of temp_repo_context, after which scan_repository has
\* returned its ScanResult
ExitContext ==
    /\ step = "finally"
    /\ repo_exists' = FALSE
    /\ step' = "returned"
    /\ UNCHANGED <<trace, repo_url, cfg, clone_size, failed_tools, raised_in, errors, dep_errors, result>>
    /\ UNCHANGED <<orchVars, dedupVars, redactVars, collectVars, poolVars, pairVars, ignoreVars>>

(***************************************************************************)
(* Claims about one scan.                                                  *)
(***************************************************************************)
\* C11: an unexpected exception raised inside a scan (in cloning, secret
\* scanning, dependency scanning or summarizing) comes back as a ScanResult
\* of status error that carries the exception message, and the clone
\* directory is not left on disk.
C11_ExceptionBecomesError ==
    (step = "returned" /\ raised_in # "none")
        => /\ result.status = "error"
           /\ \E e \in result.errors : e[1] = "scan"
           /\ ~repo_exists

FullTrace == <<"validate", "clone", "secrets", "deps", "summary">>

\* the clone step of the scan has run and has not failed
CloneSucceeded == Len(trace) >= 2 /\ result.status # "failed"

\* C12: whatever the outcomes of the external tools, a scan whose clone
\* succeeded (and in which nothing but the tools went wrong) runs all the
\* remaining steps in order and ends with status completed.
C12_ToolOutcomesNeverFatal ==
    (step = "returned" /\ CloneSucceeded /\ raised_in = "none")
        => /\ result.status = "completed"
           /\ trace = FullTrace

\* a scan has returned in which the tools of all three kinds went wrong
C12_Witness ==
    /\ step = "returned"
    /\ raised_in = "none"
    /\ {"trufflehog", "pip-audit", "npm", "semgrep"} \subseteq failed_tools
    /\ result.status = "completed"

\* C13: every external tool that was missing, failed or gave malformed output
\* during the scan has an entry in the errors list of the ScanResult returned.
C13_ToolFailuresInErrors ==
    step = "returned"
        => \A tool \in failed_tools : \E e \in result.errors : e[1] = tool

\* C17: a clone whose total size exceeds the max_repo_size of the ScanConfig
\* passed to the scan ends the scan with status failed, and neither the secret
\* scan nor the dependency scan runs.
C17_OversizeIsFatal ==
    (step = "returned" /\ clone_size > cfg.max_repo_size)
        => /\ result.status = "failed"
           /\ \A i \in 1..Len(trace) : trace[i] \notin {"secrets", "deps"}

\* C19: the steps of a scan run in the order validate, clone, secrets,
\* dependencies, summary, none skipped or repeated; status failed comes from
\* the validation or the clone step only; a completed scan has run them all,
\* and once the clone has succeeded the scan ends as completed or error.
C19_StepsInOrder ==
    /\ Len(trace) <= Len(FullTrace)
    /\ trace = SubSeq(FullTrace, 1, Len(trace))
    /\ result.status = "failed" => (Len(trace) <= 2 /\ step \in {"finally", "returned"})
    /\ result.status = "completed" => trace = FullTrace
    /\ (step = "returned" /\ Len(trace) > 2) => result.status \in {"completed", "error"}
    /\ step = "returned" => result.status \in {"completed", "failed", "error"}

\* a scan has run every step and returned completed
C19_Witness ==
    /\ step = "returned"
    /\ trace = FullTrace
    /\ result.status = "completed"

(***************************************************************************)
(* The file collection of run_secret_scan.  A file of the cloned tree is   *)
(* the directories from the clone root down to it and its name; a name is  *)
(* what os.path.splitext makes of it: the pieces of the root part and the  *)
(* extension ("" when it has none).                                        *)
(***************************************************************************)
MaxDirs == 3

SENSITIVE_EXTENSIONS ==
    { ".env", ".key", ".pem", ".jks", ".p12", ".crt", ".cer", ".properties", ".credentials",
      ".config", ".yaml", ".yml", ".json", ".xml", ".ini", ".toml", ".conf", ".java", ".gradle" }

SOURCE_EXTENSIONS ==
    { ".py", ".js", ".ts", ".java", ".go", ".rb", ".php", ".cs", ".scala", ".kt", ".swift", ".cpp", ".c" }

SENSITIVE_FILENAMES ==
    { ".env", ".env.local", ".env.production", ".env.development", "credentials", "secrets",
      "password", "token", "apikey", "aws_credentials", "gcp_credentials", "azure_credentials",
      "id_rsa", "id_dsa", "id_ecdsa", "id_ed25519" }

DirNames == { "src", ".git", "test" }

FileNames ==
    { [root |-> <<"id_rsa">>, ext |-> ""],
      [root |-> <<"id_rsa">>, ext |-> ".pub"],
      [root |-> <<"ID_RSA">>, ext |-> ""],
      [root |-> <<"my_", "id_rsa">>, ext |-> ".bak"],
      [root |-> <<"main">>, ext |-> ".py"],
      [root |-> <<"Main">>, ext |-> ".PY"],
      [root |-> <<"settings">>, ext |-> ".yaml"],
      [root |-> <<"README">>, ext |-> ""],
      [root |-> <<"notes">>, ext |-> ".txt"] }

\* str.lower() on a piece of a name
Lower(piece) ==
    CASE piece = "ID_RSA" -> "id_rsa"
      [] piece = "Main" -> "main"
      [] piece = ".PY" -> ".py"
      [] piece = "README" -> "readme"
      [] piece = "Test" -> "test"
      [] OTHER -> piece

\* sens in filename_lower, for a sens that is one of the pieces of the name
NameContains(name, sens) ==
    \/ \E i \in 1..Len(name.root) : Lower(name.root[i]) = sens
    \/ Lower(name.ext) = sens

\* the condition of the collection without its file-name part
IsCandidateByExtension(name, config) ==
    \/ Lower(name.ext) \in SENSITIVE_EXTENSIONS
    \/ config.scan_source_files /\ Lower(name.ext) \in SOURCE_EXTENSIONS

\* the condition under which the walk appends a file to files_to_scan
IsCandidate(name, config) ==
    \/ Lower(name.ext) \in SENSITIVE_EXTENSIONS
    \/ \E sens \in SENSITIVE_FILENAMES : NameContains(name, sens)
    \/ config.scan_source_files /\ Lower(name.ext) \in SOURCE_EXTENSIONS

\* os.walk with the pruning dirs[:] = [d for d in dirs if d != '.git']: the
\* directory of the file is visited when none on its path is named .git
Visited(dirs) == \A i \in 1..Len(dirs) : dirs[i] # ".git"

\* depth = root[len(repo_path):].count(os.sep)
Depth(dirs) == Len(dirs)

\* the files the walk collects from a tree that holds file f
Collect(f, config) ==
    IF Visited(f.dirs) /\ ~(Depth(f.dirs) > config.scan_depth) /\ IsCandidate(f.name, config)
    THEN { f }
    ELSE {}

DirPaths == UNION { [1..n -> DirNames] : n \in 0..MaxDirs }

InitCollect ==
    /\ tree_file \in [dirs : DirPaths, name : FileNames]
    /\ ccfg \in [scan_depth : 0..MaxDirs, scan_source_files : BOOLEAN]
    /\ files_to_scan = {}
    /\ cphase = "walk"

\* run_secret_scan, "Collect all files to scan"
Walk ==
    /\ cphase = "walk"
    /\ files_to_scan' = Collect(tree_file, ccfg)
    /\ cphase' = "collected"
    /\ UNCHANGED <<tree_file, ccfg>>
    /\ UNCHANGED <<orchVars, dedupVars, redactVars, scanVars, poolVars, pairVars, ignoreVars>>

IdRsa == [root |-> <<"id_rsa">>, ext |-> ""]

\* C18, as claimed: a file named exactly id_rsa is collected wherever it lies
\* in the cloned tree and whatever the ScanConfig.
C18_IdRsaAlwaysSelected ==
    (cphase = "collected" /\ tree_file.name = IdRsa)
        => tree_file \in files_to_scan

\* C18, amended: a file named exactly id_rsa is collected, whatever
\* scan_source_files, when the walk visits its directory: no directory on its
\* path is named .git and it lies at most scan_depth levels below the root.
C18_IdRsaSelectedWhereWalked ==
    (/\ cphase = "collected"
     /\ tree_file.name = IdRsa
     /\ Visited(tree_file.dirs)
     /\ Depth(tree_file.dirs) <= ccfg.scan_depth)
        => tree_file \in files_to_scan

\* an id_rsa two directories down has been collected with source files off
C18_Witness ==
    /\ cphase = "collected"
    /\ tree_file.name = IdRsa
    /\ Depth(tree_file.dirs) = 2
    /\ ~ccfg.scan_source_files
    /\ tree_file \in files_to_scan

(***************************************************************************)
(* run_secret_scan over several candidate files: the sequential loop and   *)
(* the worker pool with as_completed, run on the same files.  The files    *)
(* here are those in which scan_file_for_secrets finds something or        *)
(* nothing; a file stands for itself whatever the number of candidates     *)
(* (the pool is taken when there are more than ten).                       *)
(***************************************************************************)
MaxFiles == 2

\* files_to_scan, in the order the walk collected them
FilesToScan == SubSeq(<<"a.env", "b.env", "c.env", "d.env">>, 1, MaxFiles)

PoolTypes == { "API Key", "Base64 Encoded Secret" }

\* the spans [start, end) a match may have
PoolSpans == { <<0, 1>>, <<0, 2>>, <<1, 2>> }

\* the matches on the one line of a file, in the order the loops of
\* scan_file_for_secrets reach them
MatchSeqs ==
    { ms \in UNION { [1..n -> PoolTypes \X PoolSpans] : n \in 0..MaxFindings } :
        \A i \in 1..(Len(ms) - 1) :
           \/ PatternIndex(ms[i][1]) < PatternIndex(ms[i + 1][1])
           \/ ms[i][1] = ms[i + 1][1] /\ ms[i][2][2] <= ms[i + 1][2][1] }

\* scan_file_for_secrets(filepath, ...): the findings of the file, each with
\* file_path = os.path.relpath(filepath, repo_path)
FindingsOf(filepath, ms) ==
    [i \in 1..Len(ms) |->
        [SecretFinding([include_line_numbers |-> TRUE], 1, ms[i][1], ms[i][2][1], ms[i][2][2])
            EXCEPT !.file_path = filepath]]

RECURSIVE TotalLen(_, _)
TotalLen(fm, files) ==
    IF files = <<>> THEN 0 ELSE Len(fm[Head(files)]) + TotalLen(fm, Tail(files))

InitPool ==
    /\ file_matches \in [Range(FilesToScan) -> MatchSeqs]
    /\ TotalLen(file_matches, FilesToScan) <= MaxFindings
    /\ seq_left = FilesToScan
    /\ futures = Range(FilesToScan)
    /\ seq_findings = <<>>
    /\ par_findings = <<>>
    /\ seq_unique = <<>>
    /\ par_unique = <<>>
    /\ pphase = "scan"

\* the sequential loop: for filepath in files_to_scan, all_findings.extend(...)
SequentialScan ==
    /\ pphase = "scan"
    /\ seq_left # <<>>
    /\ seq_findings' = seq_findings \o FindingsOf(Head(seq_left), file_matches[Head(seq_left)])
    /\ seq_left' = Tail(seq_left)
    /\ UNCHANGED <<file_matches, futures, par_findings, seq_unique, par_unique, pphase>>
    /\ UNCHANGED <<orchVars, dedupVars, redactVars, scanVars, collectVars, pairVars, ignoreVars>>

\* the pool: as_completed hands over the future of filepath, whichever
\* completes next, and all_findings.extend(future.result())
FutureCompleted(filepath) ==
    /\ pphase = "scan"
    /\ filepath \in futures
    /\ par_findings' = par_findings \o FindingsOf(filepath, file_matches[filepath])
    /\ futures' = futures \ { filepath }
    /\ UNCHANGED <<file_matches, seq_left, seq_findings, seq_unique, par_unique, pphase>>
    /\ UNCHANGED <<orchVars, dedupVars, redactVars, scanVars, collectVars, pairVars, ignoreVars>>

\* both runs go on to the deduplicator
DeduplicateRuns ==
    /\ pphase = "scan"
    /\ seq_left = <<>>
    /\ futures = {}
    /\ seq_unique' = Deduplicate(seq_findings)
    /\ par_unique' = Deduplicate(par_findings)
    /\ pphase' = "dedup"
    /\ UNCHANGED <<file_matches, seq_left, futures, seq_findings, par_findings>>
    /\ UNCHANGED <<orchVars, dedupVars, redactVars, scanVars, collectVars, pairVars, ignoreVars>>

\* C27: the sequential loop and the worker pool, whatever the order in which
\* the workers complete, give the same findings: the same set, and for each
\* file the same findings in the same order.
C27_PoolEqualsSequential ==
    pphase = "dedup"
        => /\ Range(par_unique) = Range(seq_unique)
           /\ Len(par_unique) = Len(seq_unique)
           /\ \A fp \in Range(FilesToScan) :
                 SelectSeq(par_unique, LAMBDA f : f.file_path = fp)
                     = SelectSeq(seq_unique, LAMBDA f : f.file_path = fp)

\* the workers completed in another order than the sequential loop, findings
\* came from two files, and the deduplicator dropped one
C27_Witness ==
    /\ pphase = "dedup"
    /\ par_findings # seq_findings
    /\ Len(par_unique) < Len(par_findings)
    /\ \E f \in Range(par_unique), g \in Range(par_unique) : f.file_path # g.file_path

(***************************************************************************)
(* The ignore filter.  A path is the sequence of its "/"-separated         *)
(* segments; a segment is its "_"-separated words followed by its          *)
(* extension ("" when it has none).                                        *)
(***************************************************************************)
Segment(words, ext) == [words |-> words, ext |-> ext]

\* IGNORE_PATTERNS: r"test[_/]", r"mock[_/]", r"fixture[_/]", r"example[_/]"
IGNORE_WORDS == { "test", "mock", "fixture", "example" }

\* IGNORE_PATTERNS: r"\.example$", r"\.sample$", r"\.template$"
IGNORE_SUFFIXES == { ".example", ".sample", ".template" }

\* the word ends with the letters of w
EndsWith(word, w) ==
    \/ word = w
    \/ w = "test" /\ word \in { "mytest", "latest" }

\* ScanConfig.base_path = "./repos"
BasePath == << Segment(<<"repos">>, "") >>

\* the repositories: two of them differ in their name alone, two in their
\* host alone
CloneURLs ==
    { [scheme |-> "https", host |-> <<"github", "com">>, path |-> <<"a", "app">>, dotgit |-> TRUE, md5 |-> "h1"],
      [scheme |-> "https", host |-> <<"github", "com">>, path |-> <<"a", "mytest">>, dotgit |-> TRUE, md5 |-> "h2"],
      [scheme |-> "https", host |-> <<"gitlab", "com">>, path |-> <<"a", "app">>, dotgit |-> TRUE, md5 |-> "h3"] }

\* the files of the tree, by their path relative to the root of the repository
RelPaths ==
    { << Segment(<<"config">>, ".env") >>,
      << Segment(<<"Test">>, ""), Segment(<<"config">>, ".env") >>,
      << Segment(<<"src">>, ""), Segment(<<"test", "settings">>, ".yaml") >>,
      << Segment(<<"src">>, ""), Segment(<<"settings">>, ".sample") >>,
      << Segment(<<"latest">>, ""), Segment(<<"server">>, ".pem") >>,
      << Segment(<<"src">>, ""), Segment(<<"id", "test">>, "") >>,
      << Segment(<<"examples">>, ""), Segment(<<"credentials">>, ".json") >> }

\* temp_repo_context: repo_path = os.path.join(config.base_path, repo_name);
\* run_secret_scan: filepath = os.path.join(root, file) under os.walk(repo_path)
FilePath(url, rel) == BasePath \o << Segment(sanitize_repo_name(url), "") >> \o rel

\* re.search(r"<w>[_/]", filepath_lower): a word that ends with w is followed
\* by "_" (another word of its segment) or by "/" (it ends a segment that has
\* no extension and is not the last)
SearchWord(filepath, w) ==
    \E i \in 1..Len(filepath) : \E j \in 1..Len(filepath[i].words) :
        /\ EndsWith(Lower(filepath[i].words[j]), w)
        /\ \/ j < Len(filepath[i].words)
           \/ filepath[i].ext = "" /\ i < Len(filepath)

\* re.search(r"\<suffix>$", filepath_lower)
SearchSuffix(filepath, suffix) == Lower(filepath[Len(filepath)].ext) = suffix

\* should_ignore_file
should_ignore_file(filepath) ==
    \/ \E w \in IGNORE_WORDS : SearchWord(filepath, w)
    \/ \E suffix \in IGNORE_SUFFIXES : SearchSuffix(filepath, suffix)

InitIgnore ==
    /\ clones \in [1..2 -> CloneURLs]
    /\ ifile \in RelPaths
    /\ ignored = [k \in 1..2 |-> "none"]

\* scan_file_for_secrets on the file in clone k, up to the ignore filter
IgnoreCheck(k) ==
    /\ ignored[k] = "none"
    /\ ignored' = [ignored EXCEPT ![k] = IF should_ignore_file(FilePath(clones[k], ifile))
                                         THEN "ignored" ELSE "scanned"]
    /\ UNCHANGED <<clones, ifile>>
    /\ UNCHANGED <<orchVars, dedupVars, redactVars, scanVars, collectVars, poolVars, pairVars>>

\* C30: whether a file is ignored depends on its path relative to the root of
\* the repository alone: in two repositories with the same tree the file has
\* the same decision, whatever their names, URLs and clone directories.
C30_IgnoreByRelativePath ==
    (ignored[1] # "none" /\ ignored[2] # "none") => ignored[1] = ignored[2]

(***************************************************************************)
(* Specifications.                                                         *)
(***************************************************************************)
IdleDedup ==
    /\ all_findings = <<>>
    /\ unique_findings = <<>>
    /\ rerun_findings = <<>>
    /\ dphase = "idle"
    /\ dconfig = [include_line_numbers |-> TRUE]

IdleRedact ==
    /\ line = <<>>
    /\ finding = NoFinding
    /\ serialized = NoFinding
    /\ rphase = "idle"
    /\ rconfig = [redact_secrets |-> TRUE]

\* the service at rest, for the specifications of the file scan
IdleOrch == InitOrch

IdleScan ==
    /\ step = "idle"
    /\ trace = <<>>
    /\ repo_url = <<>>
    /\ cfg = [max_repo_size |-> DEFAULT_MAX_REPO_SIZE]
    /\ repo_exists = FALSE
    /\ clone_size = 0
    /\ failed_tools = {}
    /\ raised_in = "none"
    /\ errors = {}
    /\ dep_errors = {}
    /\ result = NoScanResult

IdleCollect ==
    /\ tree_file = <<>>
    /\ ccfg = <<>>
    /\ files_to_scan = {}
    /\ cphase = "idle"

IdlePair == other_finding = NoFinding

IdleIgnore ==
    /\ clones = <<>>
    /\ ifile = <<>>
    /\ ignored = <<>>

IdlePool ==
    /\ file_matches = <<>>
    /\ seq_left = <<>>
    /\ futures = {}
    /\ seq_findings = <<>>
    /\ par_findings = <<>>
    /\ seq_unique = <<>>
    /\ par_unique = <<>>
    /\ pphase = "idle"

Init == InitOrch /\ IdleDedup /\ IdleRedact /\ IdleScan /\ IdleCollect /\ IdlePool /\ IdlePair /\ IdleIgnore

Next ==
    \/ Tick
    \/ \E url \in URLs : SubmitRejected(url)
    \/ \E url \in URLs, name \in RequestNames, timeout \in Timeouts : scan_repo_async(url, name, timeout)
    \/ \E t \in Tasks : StartScan(t)
    \/ \E t \in Tasks : ClonePrepare(t)
    \/ \E t \in Tasks : CloneRun(t)
    \/ \E t \in Tasks : SecretScan(t)
    \/ \E t \in Tasks : DependencyScan(t)
    \/ \E t \in Tasks : Summarize(t)
    \/ \E t \in Tasks : Cleanup(t)
    \/ \E t \in Tasks : Return(t)
    \/ \E t \in Tasks : StoreResult(t)
    \/ \E t \in Tasks : StoreStatus(t)
    \/ \E id \in IssuedIds : Query(id)
    \/ \E id \in IssuedIds : delete_scan_result(id)

Spec == Init /\ [][Next]_vars

InitOneTask == InitTask /\ IdleDedup /\ IdleRedact /\ IdleScan /\ IdleCollect /\ IdlePool /\ IdlePair /\ IdleIgnore

NextTask ==
    \/ Tick
    \/ \E url \in TaskURLs, name \in {NoName} \cup GivenNames, timeout \in Timeouts :
          scan_repo_async(url, name, timeout)
    \/ \E url \in TaskURLs, name \in {NoName} \cup GivenNames : SubmitFails(url, name)
    \/ \E t \in Tasks : StartScan(t)
    \/ \E t \in Tasks : ClonePrepare(t)
    \/ \E t \in Tasks : CloneRun(t)
    \/ \E t \in Tasks : CloneBlocks(t)
    \/ \E t \in Tasks : SecretScan(t)
    \/ \E t \in Tasks : DependencyScan(t)
    \/ \E t \in Tasks : Summarize(t)
    \/ \E t \in Tasks : Cleanup(t)
    \/ \E t \in Tasks : Return(t)
    \/ \E t \in Tasks : StoreResult(t)
    \/ \E t \in Tasks : StoreStatus(t)
    \/ \E t \in Tasks : ScanRaises(t)
    \/ \E t \in Tasks : FailStatus(t)
    \/ \E t \in Tasks : FailResult(t)
    \/ \E id \in IssuedIds : Query(id)

\* the background tasks and the status and result queries, with every path of
\* run_scan_background and no delete
SpecTask == InitOneTask /\ [][NextTask]_vars

\* the same, the thread pool running every task that can take a step
SpecTaskFair == InitOneTask /\ [][NextTask]_vars /\ TaskFairness

InitScanFile == IdleOrch /\ InitDedup /\ IdleRedact /\ IdleScan /\ IdleCollect /\ IdlePool /\ IdlePair /\ IdleIgnore

NextDedup ==
    \/ \E ln \in Lines, secret_type \in SecretTypes, start \in 0..MaxCol, end \in 0..MaxCol :
          ScanMatch(ln, secret_type, start, end)
    \/ RunDeduplicate
    \/ RerunDeduplicate

SpecDedup == InitScanFile /\ [][NextDedup]_vars

\* the labels of the patterns met on the one line of SpecDedupLine: on
\* "api_key=<40 letters>" the patterns of "API Key" and of "Base64 Encoded
\* Secret" capture the same span, and neither label is a provider's or generic
OneLineTypes == SecretTypes \cup { "Base64 Encoded Secret" }

NextDedupLine ==
    \/ \E secret_type \in OneLineTypes, start \in 0..MaxCol, end \in 0..MaxCol :
          ScanMatch(1, secret_type, start, end)
    \/ RunDeduplicate
    \/ RerunDeduplicate

\* the scan of a file of one line, and the deduplication of its findings
SpecDedupLine == InitScanFile /\ [][NextDedupLine]_vars

InitScanLine == IdleOrch /\ IdleDedup /\ InitRedact /\ IdleScan /\ IdleCollect /\ IdlePool /\ IdlePair /\ IdleIgnore

NextRedact ==
    \/ \E start \in 0..MaxLineLen, end \in 0..MaxLineLen : MatchLine(start, end)
    \/ Serialize

SpecRedact == InitScanLine /\ [][NextRedact]_vars

InitScanPair == IdleOrch /\ IdleDedup /\ InitPair /\ IdleScan /\ IdleCollect /\ IdlePool /\ IdleIgnore

NextPair ==
    \/ \E start \in 0..MaxLineLen, end \in 0..MaxLineLen : MatchLine(start, end)
    \/ \E start \in 0..MaxLineLen, end \in 0..MaxLineLen : MatchLineAgain(start, end)

\* scan_file_for_secrets on a line that holds two secrets
SpecPair == InitScanPair /\ [][NextPair]_vars

InitOneScan == IdleOrch /\ IdleDedup /\ IdleRedact /\ InitScan /\ IdleCollect /\ IdlePool /\ IdlePair /\ IdleIgnore

NextScan ==
    \/ EnterContext
    \/ CloneStep
    \/ SecretStep
    \/ PythonStep
    \/ NodeStep
    \/ QualityStep
    \/ SummaryStep
    \/ ExitContext

SpecScan == InitOneScan /\ [][NextScan]_vars

InitWalk == IdleOrch /\ IdleDedup /\ IdleRedact /\ IdleScan /\ InitCollect /\ IdlePool /\ IdlePair /\ IdleIgnore

NextCollect == Walk

SpecCollect == InitWalk /\ [][NextCollect]_vars

InitRuns == IdleOrch /\ IdleDedup /\ IdleRedact /\ IdleScan /\ IdleCollect /\ InitPool /\ IdlePair /\ IdleIgnore

NextPool ==
    \/ SequentialScan
    \/ \E filepath \in Range(FilesToScan) : FutureCompleted(filepath)
    \/ DeduplicateRuns

SpecPool == InitRuns /\ [][NextPool]_vars

InitClones == IdleOrch /\ IdleDedup /\ IdleRedact /\ IdleScan /\ IdleCollect /\ IdlePool /\ IdlePair /\ InitIgnore

NextIgnore == \E k \in 1..2 : IgnoreCheck(k)

SpecIgnore == InitClones /\ [][NextIgnore]_vars

====
